---- MODULE Spec2Model ----
(***************************************************************************)
(* Model of the concurrent test-dispatch runner.                           *)
(*                                                                         *)
(*   test_runner.py  TestFactory, AsyncTestRunner._execute_single_test,     *)
(*                   AsyncTestRunner.run_all                                *)
(*   database.py     PostgresDB (devices / tests / results tables),         *)
(*                   MongoDB (test_logs), ElasticsearchDB (index)           *)
(*   main.py         device registration and the summary loop              *)
(*                                                                         *)
(* run_all wraps one coroutine per request in a task and gathers them.      *)
(* asyncio runs one task at a time and switches only at an await; the only  *)
(* await of a unit is the asyncio.sleep inside the test's run().  `running` *)
(* is the task that owns the event loop (0: none).  The first step of every *)
(* task is queued, in request order, before any timer can fire, so units    *)
(* start in request order; they wake from their sleep in any order.         *)
(***************************************************************************)
EXTENDS Integers, Sequences, FiniteSets

\* ---------------------------------------------------------------- bounds
MaxUnits == 2
MaxFaults == 2

\* bits of the significand of a duration (a Python float has 53)
MantissaBits == 4

\* longest list of results handed to the aggregation loop on its own
MaxResults == 3

\* largest `times` a retry wrapper is built with
MaxTimes == 3

\* ---------------------------------------------------------------- inputs
\* main.py registers device_iphone_001 .. device_iphone_010; two of them
\* are kept, and one id that register_device never saw.
DeviceList == <<"device_iphone_001", "device_iphone_002">>

RegisteredDevices == {DeviceList[i] : i \in DOMAIN DeviceList}

\* the databases main connects: PostgresDB, MongoDB, ElasticsearchDB
Sinks == {"postgres", "mongo", "elasticsearch"}

DeviceIds == RegisteredDevices \cup {"device_iphone_099"}

TestNames == {"performance_test", "Stability_Test", "nonexistent_test"}

Request == [test_name : TestNames, device_id : DeviceIds]

RequestLists == UNION {[1..n -> Request] : n \in 0..MaxUnits}

\* ------------------------------------------------------------ test catalog
\* str.lower() on the names a request can carry
Lower(name) ==
  CASE name = "Stability_Test" -> "stability_test"
    [] OTHER -> name

\* tests_registry of TestFactory.create_test: lower-case name -> class
tests_registry ==
  [n \in {"performance_test", "connectivity_test", "stability_test"} |->
     CASE n = "performance_test" -> "PerformanceTest"
       [] n = "connectivity_test" -> "ConnectivityTest"
       [] n = "stability_test" -> "StabilityTest"]

\* test_class = tests_registry.get(test_name.lower()); None when absent
NoClass == "None"

test_class(test_name) ==
  IF Lower(test_name) \in DOMAIN tests_registry
  THEN tests_registry[Lower(test_name)]
  ELSE NoClass

UnknownTestMsg(test_name) == <<"Unknown test name requested: ", test_name>>

\* message of the exception each run() raises on its injected failure
RunErrorMsg(cls) ==
  CASE cls = "PerformanceTest" -> <<"Performance drop detected in memory profile">>
    [] cls = "ConnectivityTest" -> <<"Wireless AP connection lost randomly">>
    [] cls = "StabilityTest" -> <<"Unexpected springboard crash on iOS device">>

\* asyncio.sleep(random.uniform(lo, hi)) of each run(), in half seconds,
\* the two ends of each window
SleepWindow(cls) ==
  CASE cls = "PerformanceTest" -> {1, 2}
    [] cls = "ConnectivityTest" -> {1, 3}
    [] cls = "StabilityTest" -> {2, 4}

\* ---------------------------------------------------------------- state
VARIABLES
  requests,       \* test_requests handed to run_all
  pg_db,          \* AsyncTestRunner.pg_db is set
  mongo_db,       \* AsyncTestRunner.mongo_db is set
  pc,             \* position of each unit in _execute_single_test
  running,        \* the task that owns the event loop, 0 if none
  status,         \* local `status` of each unit
  error_msg,      \* local `error_msg` of each unit
  result,         \* local `result` of each unit
  duration,       \* local `duration` of each unit
  verdict,        \* how the try block of each unit ended
  acquired,       \* how the RUNNING write of each unit ended
  released,       \* how the AVAILABLE write of each unit ended
  contended,      \* the unit's RUNNING write found another unit on the device
  logged,         \* how log_result of each unit ended
  written,        \* how write_log of each unit ended
  devices,        \* PostgreSQL table devices: device_id -> status
  tests,          \* PostgreSQL table tests
  results,        \* PostgreSQL table results
  test_logs,      \* MongoDB collection test_logs
  es_index,       \* Elasticsearch index wireless-test-logs
  faults,         \* database calls that raised so far
  conn,           \* the databases main has connected
  registered,     \* how many devices the loop of main has registered
  main_error,     \* the exception that ended main, if any
  mainpc,         \* position of main
  final_results,  \* what run_all returned
  summary,        \* total / passed / failed / total_duration of main
  times,          \* retry: the number of attempts asked for
  behaviour,      \* retry: what the k-th call of the wrapped function does
  attempts,       \* retry: the local `attempts` of wrapper
  calls,          \* retry: the calls of the wrapped function so far
  caught,         \* retry: the exception `e` of the except clause
  rpc,            \* retry: where wrapper is
  outcome         \* retry: what wrapper returned or raised

unitVars == <<pc, running, status, error_msg, result, duration, verdict, acquired,
              released, contended, logged, written>>
sinkVars == <<devices, tests, results, test_logs, es_index>>
mainVars == <<mainpc, final_results, summary>>
confVars == <<requests, pg_db, mongo_db>>
startVars == <<conn, registered, main_error>>
retryVars == <<times, behaviour, attempts, calls, caught, rpc, outcome>>
vars == <<confVars, startVars, unitVars, sinkVars, mainVars, faults, retryVars>>

Units == 1..Len(requests)

\* `result` before the unit assigns it
NoValue == [none |-> TRUE]

\* main.py lines 44-47, before the loop has run
NoSummary == [total |-> 0, passed |-> 0, failed |-> 0, total_duration |-> 0,
              avg_duration |-> [num |-> 0, den |-> 1]]

test_name(u) == requests[u].test_name
device_id(u) == requests[u].device_id

\* ------------------------------------------------------------ PostgresDB
\* register_device for every device of main
RegisterAll == [d \in RegisteredDevices |-> "AVAILABLE"]

\* UPDATE devices SET status = st WHERE device_id = id
update_device_status(devs, id, st) ==
  [d \in DOMAIN devs |-> IF d = id THEN st ELSE devs[d]]

\* the row log_result inserts into tests
TestsRow(name) == [test_name |-> name]

\* ResultsRow with the error column left empty
ResultsRowNoError(name, dev, st, dur, err) ==
  [test_name |-> name, device_id |-> dev, status |-> st,
   duration_sec |-> dur, error |-> <<>>]

\* the row log_result inserts into results
ResultsRow(name, dev, st, dur, err) ==
  [test_name |-> name, device_id |-> dev, status |-> st,
   duration_sec |-> dur, error |-> err]

\* ---------------------------------------------------------------- MongoDB
\* doc of write_log
MongoDoc(name, dev, st, dur, err) ==
  [test_name |-> name, device_id |-> dev, status |-> st,
   duration |-> dur, error |-> err]

\* no call of a retry wrapper is under way
NoRetry ==
  /\ times = 0
  /\ behaviour = <<>>
  /\ attempts = 0
  /\ calls = 0
  /\ caught = "none"
  /\ rpc = "idle"
  /\ outcome = NoValue

\* a database call may raise while the fault budget lasts
MayRaise == faults < MaxFaults

\* ------------------------------------------------------------------ Init
Init ==
  /\ requests \in RequestLists
  /\ pg_db \in BOOLEAN
  /\ mongo_db \in BOOLEAN
  /\ pc = [u \in Units |-> "start"]
  /\ running = 0
  /\ status = [u \in Units |-> "FAIL"]
  /\ error_msg = [u \in Units |-> <<>>]
  /\ result = [u \in Units |-> NoValue]
  /\ duration = [u \in Units |-> 0]
  /\ verdict = [u \in Units |-> "none"]
  /\ acquired = [u \in Units |-> "none"]
  /\ released = [u \in Units |-> "none"]
  /\ contended = [u \in Units |-> FALSE]
  /\ logged = [u \in Units |-> "none"]
  /\ written = [u \in Units |-> "none"]
  /\ devices = RegisterAll
  /\ tests = <<>>
  /\ results = <<>>
  /\ test_logs = <<>>
  /\ es_index = <<>>
  /\ faults = 0
  /\ conn = Sinks
  /\ registered = Len(DeviceList)
  /\ main_error = "none"
  /\ mainpc = "run_all"
  /\ final_results = <<>>
  /\ summary = NoSummary
  /\ NoRetry

\* --------------------------------------------- _execute_single_test
\* a unit is on its device: its RUNNING write returned and it has not yet
\* written AVAILABLE
Holding(u) ==
  /\ acquired[u] = "ok"
  /\ released[u] # "ok"
  /\ pc[u] \in {"create", "run", "sleep", "log", "release"}

\* the unit is inside `await test_instance.run()`
Executing(u) == pc[u] = "sleep"

\* where a unit goes once the timing block (lines 103-104) is done
AfterExec == IF pg_db THEN "log" ELSE IF mongo_db THEN "mongo" ELSE "return"

\* where a unit goes when the PostgreSQL block (lines 107-112) is done
AfterPg == IF mongo_db THEN "mongo" ELSE "return"

\* AfterPgError with the unit blocked for good on the broken connection
AfterPgErrorHangs == "hung"

\* AfterPgError with the except clause leaving the unit: MongoDB is skipped
AfterPgErrorReturns == "return"

\* where a unit goes from the except clause of the PostgreSQL block
\* (lines 113-114): the error is logged and the unit goes on to line 116
AfterPgError == IF mongo_db THEN "mongo" ELSE "return"

\* FailResult reading error_msg before line 94 assigned it
FailResultStaleError(u, dur) ==
  [status |-> "FAIL", device_id |-> device_id(u), test_name |-> test_name(u),
   error |-> error_msg[u], duration |-> dur]

\* result built by the except clause, lines 96-101, plus the duration
FailResult(u, dur) ==
  [status |-> "FAIL", device_id |-> device_id(u), test_name |-> test_name(u),
   error |-> error_msg'[u], duration |-> dur]

\* dict returned by run() of the test class, plus the duration
PassResult(u, dur) ==
  [status |-> "PASS", device_id |-> device_id(u),
   test_name |-> test_class(test_name(u)), duration |-> dur]

\* lines 72-74: the task takes the loop for its first step
Start(u) ==
  /\ pc[u] = "start"
  /\ running = 0
  /\ \A v \in Units : v < u => pc[v] # "start"
  /\ running' = u
  /\ status' = [status EXCEPT ![u] = "FAIL"]
  /\ error_msg' = [error_msg EXCEPT ![u] = <<>>]
  /\ pc' = [pc EXCEPT ![u] = IF pg_db THEN "acquire" ELSE "create"]
  /\ UNCHANGED <<result, duration, verdict, acquired, released, contended, logged,
                 written>>
  /\ UNCHANGED <<retryVars, confVars, startVars, sinkVars, mainVars, faults>>

\* lines 77-81: update_device_status(device_id, "RUNNING"), error logged
Acquire(u) ==
  /\ pc[u] = "acquire"
  /\ running = u
  /\ contended' = [contended EXCEPT ![u] =
                     \E v \in Units \ {u} :
                        device_id(v) = device_id(u) /\ Holding(v)]
  /\ \/ /\ devices' = update_device_status(devices, device_id(u), "RUNNING")
        /\ acquired' = [acquired EXCEPT ![u] = "ok"]
        /\ UNCHANGED faults
     \/ /\ MayRaise
        /\ faults' = faults + 1
        /\ acquired' = [acquired EXCEPT ![u] = "raised"]
        /\ UNCHANGED devices
  /\ pc' = [pc EXCEPT ![u] = "create"]
  /\ UNCHANGED <<running, status, error_msg, result, duration, verdict, released, logged,
                 written>>
  /\ UNCHANGED <<retryVars, confVars, startVars, tests, results, test_logs, es_index, mainVars>>

\* line 85: TestFactory.create_test; an unknown name raises ValueError,
\* caught at lines 92-101, then lines 103-104
CreateTest(u) ==
  /\ pc[u] = "create"
  /\ running = u
  /\ IF test_class(test_name(u)) # NoClass
     THEN /\ pc' = [pc EXCEPT ![u] = "run"]
          /\ UNCHANGED <<error_msg, result, duration, verdict>>
     ELSE /\ error_msg' = [error_msg EXCEPT ![u] = UnknownTestMsg(test_name(u))]
          /\ verdict' = [verdict EXCEPT ![u] = "unknown_test"]
          /\ duration' = [duration EXCEPT ![u] = 0]
          /\ result' = [result EXCEPT ![u] = FailResult(u, 0)]
          /\ pc' = [pc EXCEPT ![u] = AfterExec]
  /\ UNCHANGED <<running, status, acquired, released, contended, logged, written>>
  /\ UNCHANGED <<retryVars, confVars, startVars, sinkVars, mainVars, faults>>

\* line 88: run() up to its `await asyncio.sleep(...)`; the loop is free
RunBegin(u) ==
  /\ pc[u] = "run"
  /\ running = u
  /\ pc' = [pc EXCEPT ![u] = "sleep"]
  /\ running' = 0
  /\ UNCHANGED <<status, error_msg, result, duration, verdict, acquired, released,
                 contended,
                 logged, written>>
  /\ UNCHANGED <<retryVars, confVars, startVars, sinkVars, mainVars, faults>>

\* lines 88-104: the sleep is over; run() returns its dict or raises
RunEnd(u) ==
  /\ pc[u] = "sleep"
  /\ running = 0
  /\ \A v \in Units : pc[v] # "start"
  /\ running' = u
  /\ \E dur \in SleepWindow(test_class(test_name(u))) :
       /\ duration' = [duration EXCEPT ![u] = dur]
       /\ \/ /\ status' = [status EXCEPT ![u] = "PASS"]
             /\ verdict' = [verdict EXCEPT ![u] = "returned"]
             /\ result' = [result EXCEPT ![u] = PassResult(u, dur)]
             /\ UNCHANGED error_msg
          \/ /\ error_msg' = [error_msg EXCEPT ![u] =
                                RunErrorMsg(test_class(test_name(u)))]
             /\ result' = [result EXCEPT ![u] = FailResult(u, dur)]
             /\ verdict' = [verdict EXCEPT ![u] = "raised"]
             /\ UNCHANGED status
  /\ pc' = [pc EXCEPT ![u] = AfterExec]
  /\ UNCHANGED <<acquired, released, contended, logged, written>>
  /\ UNCHANGED <<retryVars, confVars, startVars, sinkVars, mainVars, faults>>

\* line 110: log_result; autocommit, so the tests row stays when the
\* second INSERT raises.  An exception skips line 112.
LogResult(u) ==
  /\ pc[u] = "log"
  /\ running = u
  /\ \/ /\ tests' = Append(tests, TestsRow(test_name(u)))
        /\ results' = Append(results,
                        ResultsRow(test_name(u), device_id(u), status[u],
                                   duration[u], error_msg[u]))
        /\ logged' = [logged EXCEPT ![u] = "ok"]
        /\ pc' = [pc EXCEPT ![u] = "release"]
        /\ UNCHANGED faults
     \/ /\ MayRaise
        /\ faults' = faults + 1
        /\ \/ /\ logged' = [logged EXCEPT ![u] = "raised"]
              /\ UNCHANGED tests
           \/ /\ logged' = [logged EXCEPT ![u] = "partial"]
              /\ tests' = Append(tests, TestsRow(test_name(u)))
        /\ pc' = [pc EXCEPT ![u] = AfterPgError]
        /\ UNCHANGED results
  /\ UNCHANGED <<running, status, error_msg, result, duration, verdict, acquired,
                 released,                  contended, written>>
  /\ UNCHANGED <<retryVars, confVars, startVars, devices, test_logs, es_index, mainVars>>

\* line 112: update_device_status(device_id, "AVAILABLE")
Release(u) ==
  /\ pc[u] = "release"
  /\ running = u
  /\ \/ /\ devices' = update_device_status(devices, device_id(u), "AVAILABLE")
        /\ released' = [released EXCEPT ![u] = "ok"]
        /\ pc' = [pc EXCEPT ![u] = AfterPg]
        /\ UNCHANGED faults
     \/ /\ MayRaise
        /\ faults' = faults + 1
        /\ released' = [released EXCEPT ![u] = "raised"]
        /\ pc' = [pc EXCEPT ![u] = AfterPgError]
        /\ UNCHANGED devices
  /\ UNCHANGED <<running, status, error_msg, result, duration, verdict, acquired,
                 contended,                  logged, written>>
  /\ UNCHANGED <<retryVars, confVars, startVars, tests, results, test_logs, es_index, mainVars>>

\* lines 117-122: mongo_db.write_log, error logged
WriteLog(u) ==
  /\ pc[u] = "mongo"
  /\ running = u
  /\ \/ /\ test_logs' = Append(test_logs,
                          MongoDoc(test_name(u), device_id(u), status[u],
                                   duration[u], error_msg[u]))
        /\ written' = [written EXCEPT ![u] = "ok"]
        /\ UNCHANGED faults
     \/ /\ MayRaise
        /\ faults' = faults + 1
        /\ written' = [written EXCEPT ![u] = "raised"]
        /\ UNCHANGED test_logs
  /\ pc' = [pc EXCEPT ![u] = "return"]
  /\ UNCHANGED <<running, status, error_msg, result, duration, verdict, acquired,
                 released,                  contended, logged>>
  /\ UNCHANGED <<retryVars, confVars, startVars, devices, tests, results, es_index, mainVars>>

\* line 124: return result; the task is done
Return(u) ==
  /\ pc[u] = "return"
  /\ running = u
  /\ pc' = [pc EXCEPT ![u] = "done"]
  /\ running' = 0
  /\ UNCHANGED <<status, error_msg, result, duration, verdict, acquired, released,
                 contended,
                 logged, written>>
  /\ UNCHANGED <<retryVars, confVars, startVars, sinkVars, mainVars, faults>>

\* the body of the except clause at lines 92-101 raises in its turn (str(e)
\* at line 94, print at line 95): no handler of the unit encloses it, the
\* task ends with that exception and lines 103-124 are not run.  The clause
\* is entered from create_test (line 85) or from run() after its sleep.
Escape(u) ==
  /\ MayRaise
  /\ faults' = faults + 1
  /\ \/ /\ pc[u] = "create"
        /\ running = u
        /\ test_class(test_name(u)) = NoClass
        /\ duration' = [duration EXCEPT ![u] = 0]
     \/ /\ pc[u] = "sleep"
        /\ running = 0
        /\ \A v \in Units : pc[v] # "start"
        /\ \E dur \in SleepWindow(test_class(test_name(u))) :
             duration' = [duration EXCEPT ![u] = dur]
  /\ verdict' = [verdict EXCEPT ![u] = "escaped"]
  /\ result' = [result EXCEPT ![u] = [exception |-> "handler"]]
  /\ pc' = [pc EXCEPT ![u] = "done"]
  /\ running' = 0
  /\ UNCHANGED <<status, error_msg, acquired, released, contended, logged,
                 written>>
  /\ UNCHANGED <<retryVars, confVars, startVars, sinkVars, mainVars>>

\* ---------------------------------------------------------------- run_all
\* Gathered keeping only the units that passed
GatheredOnlyPassed(res) == SelectSeq(res, LAMBDA r : r.status = "PASS")

\* results of asyncio.gather(*tasks, return_exceptions=True): one entry per
\* task, in the order of the tasks
Gathered(res) == [u \in DOMAIN res |-> res[u]]

\* lines 137-139: every task is done; run_all returns list(results)
RunAllReturn ==
  /\ mainpc = "run_all"
  /\ \A u \in Units : pc[u] = "done"
  /\ final_results' = Gathered(result)
  /\ mainpc' = "summary"
  /\ UNCHANGED <<retryVars, confVars, startVars, unitVars, sinkVars, summary, faults>>

\* ------------------------------------------------------------------- main
\* isinstance(res, Exception): an entry gather filled in from an exception
IsException(res) == "exception" \in DOMAIN res

\* CountPassed with `break` for the `continue` of line 54: the entries
\* after the first exception entry are not looked at
CountPassedUntilException(rs) ==
  Cardinality({i \in DOMAIN rs :
                 /\ \A j \in 1..i : ~IsException(rs[j])
                 /\ rs[i].status = "PASS"})

\* passed of the loop at main.py lines 49-59
CountPassed(rs) ==
  Cardinality({i \in DOMAIN rs : ~IsException(rs[i]) /\ rs[i].status = "PASS"})

\* CountFailed without the else branch of line 58: only exceptions count
CountFailedOnlyExceptions(rs) ==
  Cardinality({i \in DOMAIN rs : IsException(rs[i])})

\* CountFailed with the exception entries skipped without being counted
CountFailedSkipsExceptions(rs) ==
  Cardinality({i \in DOMAIN rs : ~IsException(rs[i]) /\ rs[i].status # "PASS"})

\* failed of the loop at main.py lines 49-59
CountFailed(rs) ==
  Cardinality({i \in DOMAIN rs : IsException(rs[i]) \/ rs[i].status # "PASS"})

RECURSIVE Pow2(_)
Pow2(n) == IF n = 0 THEN 1 ELSE 2 * Pow2(n - 1)

RECURSIVE FExp(_)
\* the exponent of x: the least e with x < 2^(MantissaBits + e)
FExp(x) == IF x < Pow2(MantissaBits) THEN 0 ELSE 1 + FExp(x \div 2)

\* x rounded to MantissaBits significant bits, ties to the even significand
FRound(x) ==
  LET e == FExp(x)
      q == x \div Pow2(e)
      r == x % Pow2(e)
  IN IF 2 * r > Pow2(e) \/ (2 * r = Pow2(e) /\ q % 2 = 1)
     THEN (q + 1) * Pow2(e)
     ELSE q * Pow2(e)

\* float addition: the exact sum, rounded
FAdd(a, b) == FRound(a + b)

RECURSIVE SumDuration(_, _)
\* total_duration of the loop: `+=` of res.get("duration", 0) for every
\* dict entry, in the order of the list, starting from 0.0
SumDuration(rs, n) ==
  IF n = 0 THEN 0
  ELSE IF IsException(rs[n]) THEN SumDuration(rs, n - 1)
  ELSE FAdd(SumDuration(rs, n - 1),
            IF "duration" \notin DOMAIN rs[n] THEN 0 ELSE rs[n].duration)

\* line 63: total_duration / total if total > 0 else 0, as a fraction
avg_duration(total_duration, total) ==
  IF total > 0 THEN [num |-> total_duration, den |-> total]
  ELSE [num |-> 0, den |-> 1]

\* what lines 44-63 compute from the list of results and total
SummaryOf(rs, total) ==
  [total |-> total,
   passed |-> CountPassed(rs),
   failed |-> CountFailed(rs),
   total_duration |-> SumDuration(rs, Len(rs)),
   avg_duration |-> avg_duration(SumDuration(rs, Len(rs)), total)]

\* main.py lines 44-63
Summarize ==
  /\ mainpc = "summary"
  /\ mainpc' = "exit"
  /\ summary' = SummaryOf(final_results, Len(requests))
  /\ UNCHANGED <<retryVars, confVars, startVars, unitVars, sinkVars, final_results, faults>>

\* ------------------------------------------------------------------ Next
Next ==
  \/ \E u \in Units : Start(u)
  \/ \E u \in Units : Acquire(u)
  \/ \E u \in Units : CreateTest(u)
  \/ \E u \in Units : RunBegin(u)
  \/ \E u \in Units : RunEnd(u)
  \/ \E u \in Units : LogResult(u)
  \/ \E u \in Units : Release(u)
  \/ \E u \in Units : WriteLog(u)
  \/ \E u \in Units : Return(u)
  \/ RunAllReturn
  \/ Summarize

Spec == Init /\ [][Next]_vars

\* the event loop runs every task that is ready and every sleep ends, and
\* the caller goes on once gather is done: no enabled step waits for ever
FairSpec == Spec /\ WF_vars(Next)

\* run_all with units whose except clause raises
EscapeNext ==
  \/ Next
  \/ \E u \in Units : Escape(u)

EscapeSpec == Init /\ [][EscapeNext]_vars

\* ------------------------------------------- the aggregation loop alone
\* error_msg of the unit an entry came from
ErrorOfEntry(res) == IF "error" \in DOMAIN res THEN res.error ELSE <<>>

\* durations of the entries: one that adds exactly and one at the edge of
\* the significand
AggDurations == {1, Pow2(MantissaBits)}

\* the request the entries are the results of
AggRequest == [test_name |-> "performance_test", device_id |-> DeviceList[1]]

\* the entries gather can return: the dict of a PASS, the dict of a FAIL,
\* an exception
AggEntries ==
  {[status |-> "PASS", device_id |-> AggRequest.device_id,
    test_name |-> test_class(AggRequest.test_name), duration |-> d] :
      d \in AggDurations}
  \cup
  {[status |-> "FAIL", device_id |-> AggRequest.device_id,
    test_name |-> AggRequest.test_name,
    error |-> RunErrorMsg(test_class(AggRequest.test_name)), duration |-> d] :
      d \in AggDurations}
  \cup {[exception |-> "handler"]}

AggLists == UNION {[1..n -> AggEntries] : n \in 0..MaxResults}

\* run_all has just returned `final_results`
AggInit ==
  /\ final_results \in AggLists
  /\ requests = [i \in DOMAIN final_results |-> AggRequest]
  /\ pg_db = FALSE
  /\ mongo_db = FALSE
  /\ pc = [u \in Units |-> "done"]
  /\ running = 0
  /\ result = final_results
  /\ status = [u \in Units |->
                 IF IsException(result[u]) THEN "FAIL" ELSE result[u].status]
  /\ error_msg = [u \in Units |-> ErrorOfEntry(result[u])]
  /\ duration = [u \in Units |->
                   IF IsException(result[u]) THEN 0 ELSE result[u].duration]
  /\ verdict = [u \in Units |->
                  IF IsException(result[u]) THEN "escaped"
                  ELSE IF result[u].status = "PASS" THEN "returned"
                  ELSE "raised"]
  /\ acquired = [u \in Units |-> "none"]
  /\ released = [u \in Units |-> "none"]
  /\ contended = [u \in Units |-> FALSE]
  /\ logged = [u \in Units |-> "none"]
  /\ written = [u \in Units |-> "none"]
  /\ devices = RegisterAll
  /\ tests = <<>>
  /\ results = <<>>
  /\ test_logs = <<>>
  /\ es_index = <<>>
  /\ faults = 0
  /\ conn = Sinks
  /\ registered = Len(DeviceList)
  /\ main_error = "none"
  /\ mainpc = "summary"
  /\ summary = NoSummary
  /\ NoRetry

AggNext == Summarize

AggSpec == AggInit /\ [][AggNext]_vars

\* ------------------------------------------------ templete.py: retry
\* what one call of the wrapped function can do: return a value or raise
\* an exception
Behaviours ==
  [kind : {"return"}, val : {"r1", "r2"}] \cup
  [kind : {"raise"}, val : {"e1", "e2"}]

\* line 15 missing: the last failure is not re-raised
ExhaustedNever(att, n) == FALSE

\* line 15: attempts == times
Exhausted(att, n) == att = n

\* wrapper(...) is called on a function decorated with retry(times)
RetryInit ==
  /\ times \in 1..MaxTimes
  /\ behaviour \in [1..MaxTimes -> Behaviours]
  /\ attempts = 0
  /\ calls = 0
  /\ caught = "none"
  /\ rpc = "while"
  /\ outcome = NoValue
  /\ requests = <<>>
  /\ pg_db = FALSE
  /\ mongo_db = FALSE
  /\ pc = <<>>
  /\ running = 0
  /\ status = <<>>
  /\ error_msg = <<>>
  /\ result = <<>>
  /\ duration = <<>>
  /\ verdict = <<>>
  /\ acquired = <<>>
  /\ released = <<>>
  /\ contended = <<>>
  /\ logged = <<>>
  /\ written = <<>>
  /\ devices = RegisterAll
  /\ tests = <<>>
  /\ results = <<>>
  /\ test_logs = <<>>
  /\ es_index = <<>>
  /\ faults = 0
  /\ conn = {}
  /\ registered = 0
  /\ main_error = "none"
  /\ mainpc = "exit"
  /\ final_results = <<>>
  /\ summary = NoSummary

\* the variables of the batch run, which wrapper does not touch
runVars == <<confVars, startVars, unitVars, sinkVars, mainVars, faults>>

\* line 9: while attempts < times; falling out of the loop returns None
RetryWhile ==
  /\ rpc = "while"
  /\ IF attempts < times
     THEN /\ rpc' = "call"
          /\ UNCHANGED outcome
     ELSE /\ rpc' = "returned"
          /\ outcome' = [returned |-> "None"]
  /\ UNCHANGED <<times, behaviour, attempts, calls, caught, runVars>>

\* lines 10-12: return func(*args, **kwargs), or the exception is caught
RetryCall ==
  /\ rpc = "call"
  /\ calls' = calls + 1
  /\ IF behaviour[calls + 1].kind = "return"
     THEN /\ rpc' = "returned"
          /\ outcome' = [returned |-> behaviour[calls + 1].val]
          /\ UNCHANGED caught
     ELSE /\ rpc' = "except"
          /\ caught' = behaviour[calls + 1].val
          /\ UNCHANGED outcome
  /\ UNCHANGED <<times, behaviour, attempts, runVars>>

\* lines 13-16: attempts += 1, print, raise e when attempts == times
RetryExcept ==
  /\ rpc = "except"
  /\ attempts' = attempts + 1
  /\ IF Exhausted(attempts', times)
     THEN /\ rpc' = "raised"
          /\ outcome' = [raised |-> caught]
     ELSE /\ rpc' = "while"
          /\ UNCHANGED outcome
  /\ UNCHANGED <<times, behaviour, calls, caught, runVars>>

RetryNext ==
  \/ RetryWhile
  \/ RetryCall
  \/ RetryExcept

RetrySpec == RetryInit /\ [][RetryNext]_vars

TypeOK ==
  /\ running \in 0..Len(requests)
  /\ faults \in 0..MaxFaults
  /\ \A u \in Units : status[u] \in {"PASS", "FAIL"}

\* ------------------------------------------------------------ properties
\* every task of the batch is done
AllDone == \A u \in Units : pc[u] = "done"

\* the unit targets a device register_device has seen
Registered(u) == device_id(u) \in DOMAIN devices

\* error of a returned outcome; the dict of a passed test has no such key
ErrorOf(res) == IF "error" \in DOMAIN res THEN res.error ELSE <<>>

\* the results row that carries the outcome unit u returns
OutcomeRow(u) ==
  ResultsRow(test_name(u), device_id(u), result[u].status,
             result[u].duration, ErrorOf(result[u]))

\* the test_logs document that carries the outcome unit u returns
OutcomeDoc(u) ==
  MongoDoc(test_name(u), device_id(u), result[u].status,
           result[u].duration, ErrorOf(result[u]))

\* how many entries of seq equal r
CountIn(seq, r) == Cardinality({i \in DOMAIN seq : seq[i] = r})

\* C1: of the units that target one device, at most one at a time is
\* between its RUNNING write and its AVAILABLE write.
C1_MutualExclusion ==
  \A u, v \in Units :
    (u # v /\ device_id(u) = device_id(v)) => ~(Holding(u) /\ Holding(v))

\* C2: while a unit that acquired a registered device is inside run(), the
\* devices table shows that device as RUNNING.
C2_ExecutingImpliesRunning ==
  \A u \in Units :
    (pg_db /\ Executing(u) /\ Registered(u) /\ acquired[u] = "ok")
      => devices[device_id(u)] = "RUNNING"

\* C3: a unit that acquired its device has written AVAILABLE by the time it
\* is done, and once every unit is done every device of the batch is
\* AVAILABLE.
C3_ReleaseUnconditional ==
  /\ \A u \in Units :
       (pc[u] = "done" /\ acquired[u] = "ok") => released[u] = "ok"
  /\ (pg_db /\ AllDone) =>
       \A u \in Units : Registered(u) => devices[device_id(u)] = "AVAILABLE"

\* C4: run_all returns exactly one entry per request, in request order,
\* each a PASS or FAIL outcome for that request's test and device.
C4_OneOutcomePerRequest ==
  mainpc # "run_all" =>
    /\ Len(final_results) = Len(requests)
    /\ \A i \in 1..Len(requests) :
         /\ final_results[i].device_id = requests[i].device_id
         /\ final_results[i].status \in {"PASS", "FAIL"}
         /\ final_results[i].status = "PASS" =>
              final_results[i].test_name = test_class(requests[i].test_name)
         /\ final_results[i].status = "FAIL" =>
              /\ final_results[i].test_name = requests[i].test_name
              /\ final_results[i].error # <<>>

\* C4 witness: run_all has returned for a batch of two or more requests in
\* which a database call raised, a test type was unknown and a device was
\* not registered.
C4_Witness ==
  /\ mainpc = "summary"
  /\ Len(requests) >= 2
  /\ faults >= 1
  /\ \E u \in Units : verdict[u] = "unknown_test"
  /\ \E u \in Units : ~Registered(u)

\* C5: the summary has total = passed + failed and total = len(requests),
\* passed being the units that ended PASS.
C5_SummaryTotals ==
  mainpc = "exit" =>
    /\ summary.total = summary.passed + summary.failed
    /\ summary.total = Len(requests)
    /\ summary.passed = Cardinality({u \in Units : status[u] = "PASS"})

\* C5 witness: a summary with a passed and a failed unit.
C5_Witness ==
  /\ mainpc = "exit"
  /\ summary.passed >= 1
  /\ summary.failed >= 1

\* C6: a unit whose RUNNING write finds another unit on the device does not
\* acquire it, never executes its test and does not pass.
C6_BusyDeviceRejected ==
  \A u \in Units :
    contended[u] =>
      /\ acquired[u] # "ok"
      /\ pc[u] \notin {"run", "sleep"}
      /\ verdict[u] # "returned"

\* C7: a unit whose RUNNING write raised never looks up or executes the
\* test and never performs the AVAILABLE write.
C7_AcquireFailureShortCircuits ==
  \A u \in Units :
    acquired[u] = "raised" =>
      /\ pc[u] \notin {"run", "sleep", "release"}
      /\ verdict[u] = "none"
      /\ released[u] = "none"

\* C8: a unit whose device was never registered does not acquire it, never
\* executes its test and does not pass.
C8_UnknownDeviceFails ==
  \A u \in Units :
    (pg_db /\ ~Registered(u)) =>
      /\ acquired[u] # "ok"
      /\ pc[u] \notin {"run", "sleep"}
      /\ verdict[u] # "returned"

C10_EverySinkHoldsEveryOutcome ==
  (AllDone /\ pg_db /\ mongo_db /\ faults = 0) =>
    /\ Len(results) = Len(requests)
    /\ Len(test_logs) = Len(requests)
    /\ Len(es_index) = Len(requests)

\* message of the exception the try block of unit u caught
CaughtMessage(u) ==
  IF verdict[u] = "unknown_test"
  THEN UnknownTestMsg(test_name(u))
  ELSE RunErrorMsg(test_class(test_name(u)))

\* ---------------------------------------------------- main, lines 5-40
\* main.py line 29
test_types == <<"performance_test", "connectivity_test", "stability_test">>

\* main.py lines 30-36: every test type on every device, test type first
BuiltRequests ==
  [i \in 1..(Len(test_types) * Len(DeviceList)) |->
     [test_name |-> test_types[((i - 1) \div Len(DeviceList)) + 1],
      device_id |-> DeviceList[((i - 1) % Len(DeviceList)) + 1]]]

\* INSERT ... ON CONFLICT (device_id) DO UPDATE SET status = ...
register_device(devs, id, st) ==
  [d \in DOMAIN devs \cup {id} |-> IF d = id THEN st ELSE devs[d]]

\* the devices table an earlier run left behind
LeftoverTables ==
  UNION {[S -> {"AVAILABLE", "RUNNING"}] : S \in SUBSET DeviceIds}

\* main has no try block: an exception of a startup call ends main
AfterStartupError(next) == "failed"

MainInit ==
  /\ requests = <<>>
  /\ pg_db = FALSE
  /\ mongo_db = FALSE
  /\ pc = <<>>
  /\ running = 0
  /\ status = <<>>
  /\ error_msg = <<>>
  /\ result = <<>>
  /\ duration = <<>>
  /\ verdict = <<>>
  /\ acquired = <<>>
  /\ released = <<>>
  /\ contended = <<>>
  /\ logged = <<>>
  /\ written = <<>>
  /\ devices \in LeftoverTables
  /\ tests = <<>>
  /\ results = <<>>
  /\ test_logs = <<>>
  /\ es_index = <<>>
  /\ faults = 0
  /\ conn = {}
  /\ registered = 0
  /\ main_error = "none"
  /\ mainpc = "connect_pg"
  /\ final_results = <<>>
  /\ summary = NoSummary
  /\ NoRetry

\* a startup call of main: it returns and main goes to `next`, or it raises
StartupStep(at, next, err) ==
  /\ mainpc = at
  /\ \/ /\ mainpc' = next
        /\ UNCHANGED main_error
     \/ /\ mainpc' = AfterStartupError(next)
        /\ main_error' = err

\* line 10: pg_db.connect()
ConnectPg ==
  /\ StartupStep("connect_pg", "init_tables", "postgres connect")
  /\ conn' = IF main_error' = "none" THEN conn \cup {"postgres"} ELSE conn
  /\ UNCHANGED <<retryVars, confVars, registered, unitVars, sinkVars, final_results,
                 summary, faults>>

\* line 11: pg_db.init_tables(); CREATE TABLE IF NOT EXISTS keeps the rows
InitTables ==
  /\ StartupStep("init_tables", "connect_mongo", "init_tables")
  /\ UNCHANGED <<retryVars, confVars, conn, registered, unitVars, sinkVars, final_results,
                 summary, faults>>

\* line 15: mongo_db.connect(). MongoClient(uri) opens no connection: it
\* returns whether or not the server can be reached (the first operation on
\* the collection finds out), and raises only for a malformed URI
ConnectMongo ==
  /\ StartupStep("connect_mongo", "connect_es", "mongo connect")
  /\ \/ conn' = conn
     \/ /\ main_error' = "none"
        /\ conn' = conn \cup {"mongo"}
  /\ UNCHANGED <<retryVars, confVars, registered, unitVars, sinkVars, final_results,
                 summary, faults>>

\* line 19: es_db.connect(); ConnectionError when the ping fails
ConnectEs ==
  /\ StartupStep("connect_es", "register", "elasticsearch connect")
  /\ conn' = IF main_error' = "none" THEN conn \cup {"elasticsearch"} ELSE conn
  /\ UNCHANGED <<retryVars, confVars, registered, unitVars, sinkVars, final_results,
                 summary, faults>>

\* lines 25-26: one turn of the loop, register_device(device, "AVAILABLE")
RegisterDevice ==
  /\ registered < Len(DeviceList)
  /\ StartupStep("register", "register", "register_device")
  /\ IF main_error' = "none"
     THEN /\ devices' = register_device(devices, DeviceList[registered + 1],
                                        "AVAILABLE")
          /\ registered' = registered + 1
     ELSE UNCHANGED <<devices, registered>>
  /\ UNCHANGED <<retryVars, confVars, conn, unitVars, tests, results, test_logs, es_index,
                 final_results, summary, faults>>

\* lines 29-36: the loop is over; test_requests is built
BuildRequests ==
  /\ mainpc = "register"
  /\ registered = Len(DeviceList)
  /\ requests' = BuiltRequests
  /\ mainpc' = "construct"
  /\ UNCHANGED <<retryVars, pg_db, mongo_db, startVars, unitVars, sinkVars, final_results,
                 summary, faults>>

\* line 39: AsyncTestRunner(pg_db=..., mongo_db=..., es_db=...); __init__
\* takes pg_db and mongo_db only, so the call raises TypeError
ConstructRunner ==
  /\ mainpc = "construct"
  /\ mainpc' = "failed"
  /\ main_error' = "TypeError"
  /\ UNCHANGED <<retryVars, confVars, conn, registered, unitVars, sinkVars, final_results,
                 summary, faults>>

MainNext ==
  \/ ConnectPg
  \/ InitTables
  \/ ConnectMongo
  \/ ConnectEs
  \/ RegisterDevice
  \/ BuildRequests
  \/ ConstructRunner

MainSpec == MainInit /\ [][MainNext]_vars

\* the values of mainpc at which the connect call of sink s is still ahead
BeforeConnect(s) ==
  CASE s = "postgres" -> {"connect_pg"}
    [] s = "mongo" -> {"connect_pg", "init_tables", "connect_mongo"}
    [] s = "elasticsearch" -> {"connect_pg", "init_tables", "connect_mongo",
                               "connect_es"}

\* C15: when main is past the connect call of a sink and the connection of
\* that sink was not established, main has ended with the error: no device
\* is registered, no request is built or dispatched, and no sink holds an
\* outcome.
C15_ConnectFailureStopsRun ==
  \A s \in Sinks :
    (mainpc \notin BeforeConnect(s) /\ s \notin conn) =>
      /\ mainpc = "failed"
      /\ main_error # "none"
      /\ registered = 0
      /\ requests = <<>>
      /\ pc = <<>>
      /\ tests = <<>> /\ results = <<>> /\ test_logs = <<>> /\ es_index = <<>>

\* C11: a unit with an unknown test type on a registered device ends as a
\* FAIL outcome whose error names the test type, and has written AVAILABLE
\* for its device by the time it is done.
C11_UnknownTestFailsAndReleases ==
  \A u \in Units :
    (pg_db /\ Registered(u) /\ test_class(test_name(u)) = NoClass
       /\ pc[u] = "done") =>
      /\ result[u].status = "FAIL"
      /\ result[u].error = UnknownTestMsg(test_name(u))
      /\ released[u] = "ok"

\* C12: an outcome is PASS exactly when run() returned; a PASS outcome has
\* no error; a FAIL outcome has the non-empty message of the exception
\* that was caught.
C12_StatusAndError ==
  \A u \in Units :
    verdict[u] # "none" =>
      /\ (result[u].status = "PASS") <=> (verdict[u] = "returned")
      /\ result[u].status \in {"PASS", "FAIL"}
      /\ result[u].duration >= 0
      /\ result[u].status = "PASS" => ErrorOf(result[u]) = <<>>
      /\ result[u].status = "FAIL" =>
           /\ "error" \in DOMAIN result[u]
           /\ result[u].error # <<>>
           /\ result[u].error = CaughtMessage(u)

\* C12 witness: a finished batch holds a unit whose run() raised and a unit
\* that passed or had an unknown test type.
C12_Witness ==
  /\ AllDone
  /\ \E u \in Units : verdict[u] = "raised"
  /\ \E u \in Units : verdict[u] \in {"returned", "unknown_test"}

\* C16: a unit executes only after its RUNNING write, and no sink holds a
\* record of a unit that is still on its device.
C16_ReleaseBeforePublish ==
  \A u \in Units :
    /\ (pg_db /\ Executing(u)) => acquired[u] # "none"
    /\ (logged[u] \in {"ok", "partial"} \/ written[u] = "ok") => ~Holding(u)

\* C19: a unit whose log_result raised has still written AVAILABLE for the
\* device it acquired by the time it is done, and has still called write_log.
C19_LogFailureStillReleases ==
  \A u \in Units :
    (pc[u] = "done" /\ logged[u] \in {"raised", "partial"}) =>
      /\ acquired[u] = "ok" => released[u] = "ok"
      /\ mongo_db => written[u] # "none"

\* C20: the status and error in the results row and in the test_logs
\* document of a unit are those of the outcome the unit returns, and the
\* returned outcome is the one the try block left, whatever the writes did.
C20_SinksCarryReturnedOutcome ==
  \A u \in Units :
    /\ logged[u] = "ok" =>
         \E i \in DOMAIN results :
           /\ results[i].test_name = test_name(u)
           /\ results[i].device_id = device_id(u)
           /\ results[i].status = result[u].status
           /\ results[i].error = ErrorOf(result[u])
    /\ written[u] = "ok" =>
         \E i \in DOMAIN test_logs :
           /\ test_logs[i].test_name = test_name(u)
           /\ test_logs[i].device_id = device_id(u)
           /\ test_logs[i].status = result[u].status
           /\ test_logs[i].error = ErrorOf(result[u])
    /\ (mainpc # "run_all" /\ verdict[u] # "none") =>
         /\ final_results[u].status = status[u]
         /\ ErrorOf(final_results[u]) = error_msg[u]
         /\ (final_results[u].status = "PASS") <=> (verdict[u] = "returned")

\* C20 witness: run_all returned a FAIL outcome that both sinks hold, in a
\* batch where another database call raised.
C20_Witness ==
  /\ mainpc = "summary"
  /\ faults >= 1
  /\ \E u \in Units :
       /\ logged[u] = "ok"
       /\ written[u] = "ok"
       /\ result[u].status = "FAIL"

\* C14: a dispatched batch completes: every unit gets done, run_all
\* returns and the summary is computed, whatever tests and database calls
\* fail.
C14_BatchCompletes ==
  <>(/\ mainpc = "exit"
     /\ AllDone
     /\ Len(final_results) = Len(requests)
     /\ summary.total = Len(requests))

\* C14 witness: the summary of a batch of two or more units in which a
\* test raised and a database call raised.
C14_Witness ==
  /\ mainpc = "exit"
  /\ Len(requests) >= 2
  /\ faults >= 1
  /\ \E u \in Units : verdict[u] = "raised"

\* the units whose task ended with an exception
Escaped == {u \in Units : verdict[u] = "escaped"}

\* C13: an exception that leaves a unit does not leave run_all and stops no
\* other unit: run_all returns one entry per request, the exception is the
\* entry of its unit, every other unit has run to its return and has its
\* outcome as its entry, main raises nothing and counts the exception entry
\* as failed.
C13_EscapedExceptionIsContained ==
  /\ main_error = "none"
  /\ mainpc # "run_all" =>
       /\ Len(final_results) = Len(requests)
       /\ \A u \in Units :
            IF u \in Escaped
            THEN IsException(final_results[u])
            ELSE /\ ~IsException(final_results[u])
                 /\ verdict[u] \in {"returned", "raised", "unknown_test"}
                 /\ final_results[u].status = status[u]
  /\ mainpc = "exit" =>
       /\ summary.failed =
            Cardinality(Escaped) +
            Cardinality({u \in Units \ Escaped : status[u] = "FAIL"})
       /\ summary.passed = Cardinality({u \in Units \ Escaped : status[u] = "PASS"})

\* C13 witness: a batch whose first unit ended with an exception while the
\* second one ran to a PASS outcome, summarised.
C13_Witness ==
  /\ mainpc = "exit"
  /\ Len(requests) = 2
  /\ verdict[1] = "escaped"
  /\ verdict[2] = "returned"
  /\ summary.failed = 1 /\ summary.passed = 1

RECURSIVE ElapsedSum(_)
\* the sum of the durations of the units 1..n
ElapsedSum(n) == IF n = 0 THEN 0 ELSE ElapsedSum(n - 1) + duration[n]

\* C17: the reported average times the number of units is the sum of the
\* durations of all units, units that failed or ended with an exception
\* included; the average of an empty batch is 0.
C17_AverageOverAllUnits ==
  mainpc = "exit" =>
    /\ summary.avg_duration.num * Len(requests) =
         summary.avg_duration.den * ElapsedSum(Len(requests))
    /\ Len(requests) = 0 => summary.avg_duration.num = 0

\* the orders a list of n results can come in
Perms(n) == {p \in [1..n -> 1..n] : \A i, j \in 1..n : p[i] = p[j] => i = j}

\* the list rs in the order p
Permuted(rs, p) == [i \in DOMAIN rs |-> rs[p[i]]]

RECURSIVE ExactSum(_, _)
\* the sum of the durations of the dict entries, without rounding
ExactSum(rs, n) ==
  IF n = 0 THEN 0
  ELSE ExactSum(rs, n - 1) + (IF IsException(rs[n]) THEN 0 ELSE rs[n].duration)

\* C18 as stated: whatever the order of the results, the loop computes the
\* same total, passed, failed and total duration.
C18_SummaryOrderIndependent ==
  mainpc = "exit" =>
    \A p \in Perms(Len(final_results)) :
      LET other == SummaryOf(Permuted(final_results, p), Len(requests))
      IN /\ other.total = summary.total
         /\ other.passed = summary.passed
         /\ other.failed = summary.failed
         /\ other.total_duration = summary.total_duration

\* C18 amended: whatever the order of the results, the loop computes the
\* same total, passed and failed, and the same total duration when the sum
\* of the durations needs no rounding.
C18_CountsOrderIndependent ==
  mainpc = "exit" =>
    \A p \in Perms(Len(final_results)) :
      LET other == SummaryOf(Permuted(final_results, p), Len(requests))
      IN /\ other.total = summary.total
         /\ other.passed = summary.passed
         /\ other.failed = summary.failed
         /\ ExactSum(final_results, Len(final_results)) < Pow2(MantissaBits) =>
              other.total_duration = summary.total_duration

\* C18 witness: a summary of a PASS, a FAIL and an exception entry, in an
\* order that is not the only one, whose durations add without rounding.
C18_Witness ==
  /\ mainpc = "exit"
  /\ Len(final_results) >= 3
  /\ IsException(final_results[1])
  /\ \E i, j \in DOMAIN final_results :
       /\ ~IsException(final_results[i]) /\ final_results[i].status = "FAIL"
       /\ ~IsException(final_results[j]) /\ final_results[j].status = "PASS"
  /\ summary.total_duration = 2

\* C21: the tests table and the results table have the same number of
\* rows, whatever log_result calls have been made and however they ended:
\* no tests row is without its results row.
C21_TablesInStep ==
  /\ Len(tests) = Len(results)
  /\ \A i \in DOMAIN tests :
       i \in DOMAIN results /\ results[i].test_name = tests[i].test_name

\* C22: wrapper calls the function at most `times` times; when it has
\* returned, it returned the value of the first call that did not raise and
\* that call was the last one; when it has raised, all `times` calls raised
\* and the exception is the one of the last call; it never returns None.
C22_RetryContract ==
  /\ calls <= times
  /\ attempts <= times
  /\ rpc = "returned" =>
       /\ calls >= 1
       /\ behaviour[calls].kind = "return"
       /\ outcome = [returned |-> behaviour[calls].val]
       /\ \A k \in 1..(calls - 1) : behaviour[k].kind = "raise"
  /\ rpc = "raised" =>
       /\ calls = times
       /\ \A k \in 1..times : behaviour[k].kind = "raise"
       /\ outcome = [raised |-> behaviour[times].val]

\* C22 witness: every one of at least two calls raised, the first and the
\* last with different exceptions, and wrapper has raised.
C22_Witness ==
  /\ rpc = "raised"
  /\ times >= 2
  /\ calls = times
  /\ behaviour[1].val # behaviour[times].val
====
